---- MODULE Spec2Model ----
(***************************************************************************)
(* Model of the time-locked claimable-balance contract of src/src/lib.rs:  *)
(* the instance storage (DataKey::Init, DataKey::Balance), the ledger      *)
(* timestamp, the balances kept by the token contracts the entry points    *)
(* call, and the two entry points deposit and claim.  A panic aborts the   *)
(* invocation and the host rolls every write of that invocation back, so   *)
(* a failing call leaves storage and balances as they were.                *)
(***************************************************************************)
EXTENDS Integers, Sequences, FiniteSets

VARIABLES
    storage,        \* env.storage().instance(): DataKey -> <<>> (absent) or <<value>>
    token_balance,  \* per token contract, the balance of every holder
    ledger_timestamp, \* env.ledger().timestamp()
    last,           \* outcome of the most recent invocation of the contract, with
                    \* its arguments when it committed
    history         \* the fund movements of the committed invocations, oldest first

vars == <<storage, token_balance, ledger_timestamp, last, history>>

----------------------------------------------------------------------------
(* Bounds of the model *)

\* the ledger timestamp and the time bounds range over 0..MaxTime
MaxTime == 2

\* every address starts with MaxAmount units of each token
MaxAmount == 1

\* at most this many successful invocations are logged in history
MaxHistory == 3

(* Program constant: the largest accepted number of claimants *)
MaxClaimants == 10

----------------------------------------------------------------------------
(* Values *)

Addresses == {"a1", "a2", "a3"}

\* env.current_contract_address()
Contract == "contract"

Holders == Addresses \cup {Contract}

\* the asset the test deploys (create_token_contract)
Tokens == {"token"}

DataKey == {"Init", "Balance"}

TimeBoundKind == {"Before", "After"}

TimeBound == [kind : TimeBoundKind, timestamp : 0..MaxTime]

\* amounts offered to deposit: negative, zero, affordable, and one more than
\* any address holds
Amounts == -1..(MaxAmount + 1)

Repeat(pattern, n) == [i \in 1..n |-> pattern[((i - 1) % Len(pattern)) + 1]]

\* claimant lists offered to deposit: empty, one, two distinct, a duplicate
\* pair, exactly MaxClaimants and MaxClaimants + 1 entries
ClaimantLists ==
    {Repeat(<<"a1", "a2">>, n) : n \in {0, 1, 2, MaxClaimants, MaxClaimants + 1}}
        \cup {<<"a2", "a2">>}

ClaimableBalance(token, amount, claimants, time_bound) ==
    [token |-> token, amount |-> amount, claimants |-> claimants,
     time_bound |-> time_bound]

Results ==
    {"Ok", "TooManyClaimants", "AlreadyInitialized", "AuthorizationFailure",
     "TransferFailure", "NoActiveEscrow", "TimeConditionUnmet",
     "ClaimantNotAllowed"}

----------------------------------------------------------------------------
(* Instance storage *)

has(st, key) == st[key] # <<>>

get(st, key) == st[key][1]

\* mutation: the guard looks for the balance entry instead of the Init marker
is_initialized_by_balance(st) == has(st, "Balance")

is_initialized(st) == has(st, "Init")

----------------------------------------------------------------------------
(* Host and token collaborators *)

\* mutation: the authorization requirement is left out
require_auth_skipped(authorized) == TRUE

\* Address::require_auth: passes iff the address authorized this invocation
require_auth(authorized) == authorized

\* token transfer: rejected when the token refuses it, when the amount is
\* negative, or when the sender holds less than the amount
transfer_ok(bal, token, from, amount, accept) ==
    accept /\ amount >= 0 /\ bal[token][from] >= amount

transfer(bal, token, from, to, amount) ==
    [bal EXCEPT ![token] = [@ EXCEPT ![from] = @ - amount, ![to] = @ + amount]]

----------------------------------------------------------------------------
(* check_time_bound *)

\* mutation: strict comparisons, the boundary timestamp is excluded
check_time_bound_strict(now, time_bound) ==
    IF time_bound.kind = "Before"
    THEN now < time_bound.timestamp
    ELSE now > time_bound.timestamp

\* mutation: the two kinds are exchanged
check_time_bound_swapped(now, time_bound) ==
    IF time_bound.kind = "Before"
    THEN now >= time_bound.timestamp
    ELSE now <= time_bound.timestamp

check_time_bound(now, time_bound) ==
    IF time_bound.kind = "Before"
    THEN now <= time_bound.timestamp
    ELSE now >= time_bound.timestamp

----------------------------------------------------------------------------
(* deposit *)

\* mutation: off by one, a list of exactly MaxClaimants is rejected
too_many_claimants_inclusive(claimants) == Len(claimants) >= MaxClaimants

too_many_claimants(claimants) == Len(claimants) > MaxClaimants

\* mutation: the initialization guard comes before the claimant count
deposit_result_init_first(st, bal, from, token, amount, claimants, authorized, accept) ==
    IF is_initialized(st) THEN "AlreadyInitialized"
    ELSE IF too_many_claimants(claimants) THEN "TooManyClaimants"
    ELSE IF ~require_auth(authorized) THEN "AuthorizationFailure"
    ELSE IF ~transfer_ok(bal, token, from, amount, accept) THEN "TransferFailure"
    ELSE "Ok"

\* the check that stops deposit, in the order the code makes them
deposit_result(st, bal, from, token, amount, claimants, authorized, accept) ==
    IF too_many_claimants(claimants) THEN "TooManyClaimants"
    ELSE IF is_initialized(st) THEN "AlreadyInitialized"
    ELSE IF ~require_auth(authorized) THEN "AuthorizationFailure"
    ELSE IF ~transfer_ok(bal, token, from, amount, accept) THEN "TransferFailure"
    ELSE "Ok"

deposit_transfer(bal, from, token, amount) ==
    transfer(bal, token, from, Contract, amount)

\* mutation: the balance is stored but the Init marker is never set
deposit_storage_no_init(st, token, amount, claimants, time_bound) ==
    [st EXCEPT !["Balance"] = <<ClaimableBalance(token, amount, claimants, time_bound)>>]

deposit_storage(st, token, amount, claimants, time_bound) ==
    [st EXCEPT !["Balance"] = <<ClaimableBalance(token, amount, claimants, time_bound)>>,
               !["Init"] = <<"()">>]

Log(h, entry) == IF Len(h) < MaxHistory THEN Append(h, entry) ELSE h

\* mutation: the record and the marker are written before the transfer and
\* a refused transfer is reported without undoing them
deposit_storing_before_transfer(from, token, amount, claimants, time_bound, authorized, accept) ==
    LET result == deposit_result(storage, token_balance, from, token, amount,
                                 claimants, authorized, accept)
    IN  /\ last' = [op |-> "deposit", result |-> result,
                    committed |-> IF result = "Ok"
                                  THEN <<[from |-> from, token |-> token,
                                          amount |-> amount, claimants |-> claimants,
                                          time_bound |-> time_bound,
                                          authorized |-> authorized,
                                          at |-> ledger_timestamp]>>
                                  ELSE <<>>]
        /\ storage' = IF result \in {"Ok", "TransferFailure"}
                      THEN deposit_storage(storage, token, amount, claimants, time_bound)
                      ELSE storage
        /\ token_balance' = IF result = "Ok"
                            THEN deposit_transfer(token_balance, from, token, amount)
                            ELSE token_balance
        /\ history' = IF result = "Ok"
                      THEN Log(history, [op |-> "deposit", who |-> from,
                                         token |-> token, amount |-> amount])
                      ELSE history
        /\ UNCHANGED ledger_timestamp

deposit(from, token, amount, claimants, time_bound, authorized, accept) ==
    LET result == deposit_result(storage, token_balance, from, token, amount,
                                 claimants, authorized, accept)
    IN  IF result = "Ok"
        THEN /\ token_balance' = deposit_transfer(token_balance, from, token, amount)
             /\ storage' = deposit_storage(storage, token, amount, claimants, time_bound)
             /\ last' = [op |-> "deposit", result |-> result,
                         committed |-> <<[from |-> from, token |-> token,
                                          amount |-> amount, claimants |-> claimants,
                                          time_bound |-> time_bound,
                                          authorized |-> authorized,
                                          at |-> ledger_timestamp]>>]
             /\ history' = Log(history, [op |-> "deposit", who |-> from,
                                         token |-> token, amount |-> amount])
             /\ UNCHANGED ledger_timestamp
        ELSE /\ last' = [op |-> "deposit", result |-> result, committed |-> <<>>]
             /\ UNCHANGED <<token_balance, storage, history, ledger_timestamp>>

----------------------------------------------------------------------------
(* claim *)

\* mutation: only asks whether there is any claimant at all
contains_any(claimants, claimant) == Len(claimants) > 0

\* mutation: an empty list is read as "anyone may claim"
contains_or_open(claimants, claimant) ==
    claimants = <<>> \/ \E i \in 1..Len(claimants) : claimants[i] = claimant

contains(claimants, claimant) == \E i \in 1..Len(claimants) : claimants[i] = claimant

\* mutation: the membership check comes before the time predicate
claim_result_membership_first(st, bal, now, claimant, authorized, accept) ==
    IF ~require_auth(authorized) THEN "AuthorizationFailure"
    ELSE IF ~has(st, "Balance") THEN "NoActiveEscrow"
    ELSE IF ~contains(get(st, "Balance").claimants, claimant)
         THEN "ClaimantNotAllowed"
    ELSE IF ~check_time_bound(now, get(st, "Balance").time_bound)
         THEN "TimeConditionUnmet"
    ELSE IF ~transfer_ok(bal, get(st, "Balance").token, Contract,
                         get(st, "Balance").amount, accept)
         THEN "TransferFailure"
    ELSE "Ok"

\* mutation: a missing record is read as an empty default record
claim_result_default_record(st, bal, now, claimant, authorized, accept) ==
    IF ~require_auth(authorized) THEN "AuthorizationFailure"
    ELSE IF ~has(st, "Balance") THEN "ClaimantNotAllowed"
    ELSE IF ~check_time_bound(now, get(st, "Balance").time_bound)
         THEN "TimeConditionUnmet"
    ELSE IF ~contains(get(st, "Balance").claimants, claimant)
         THEN "ClaimantNotAllowed"
    ELSE IF ~transfer_ok(bal, get(st, "Balance").token, Contract,
                         get(st, "Balance").amount, accept)
         THEN "TransferFailure"
    ELSE "Ok"

\* the check that stops claim, in the order the code makes them
claim_result(st, bal, now, claimant, authorized, accept) ==
    IF ~require_auth(authorized) THEN "AuthorizationFailure"
    ELSE IF ~has(st, "Balance") THEN "NoActiveEscrow"
    ELSE IF ~check_time_bound(now, get(st, "Balance").time_bound)
         THEN "TimeConditionUnmet"
    ELSE IF ~contains(get(st, "Balance").claimants, claimant)
         THEN "ClaimantNotAllowed"
    ELSE IF ~transfer_ok(bal, get(st, "Balance").token, Contract,
                         get(st, "Balance").amount, accept)
         THEN "TransferFailure"
    ELSE "Ok"

\* mutation: pays the first listed claimant instead of the caller
claim_transfer_first(bal, claimable_balance, claimant) ==
    transfer(bal, claimable_balance.token, Contract,
             claimable_balance.claimants[1], claimable_balance.amount)

\* mutation: the payout is left out
claim_transfer_none(bal, claimable_balance, claimant) == bal

claim_transfer(bal, claimable_balance, claimant) ==
    transfer(bal, claimable_balance.token, Contract, claimant,
             claimable_balance.amount)

\* mutation: the balance entry is not removed after the payout
claim_storage_kept(st) == st

\* mutation: the stored amount is set to zero instead of removing the entry
claim_storage_zeroed(st) == [st EXCEPT !["Balance"] = <<[@[1] EXCEPT !.amount = 0]>>]

claim_storage(st) == [st EXCEPT !["Balance"] = <<>>]

\* mutation: the entry is removed although the token refused the payout
claim_swallowing_transfer_failure(claimant, authorized, accept) ==
    LET result == claim_result(storage, token_balance, ledger_timestamp,
                               claimant, authorized, accept)
    IN  /\ last' = [op |-> "claim", result |-> result,
                    committed |-> IF result = "Ok"
                                  THEN <<[claimant |-> claimant,
                                          claimable_balance |-> get(storage, "Balance"),
                                          authorized |-> authorized,
                                          at |-> ledger_timestamp]>>
                                  ELSE <<>>]
        /\ storage' = IF result \in {"Ok", "TransferFailure"}
                      THEN claim_storage(storage)
                      ELSE storage
        /\ token_balance' = IF result = "Ok"
                            THEN claim_transfer(token_balance, get(storage, "Balance"),
                                                claimant)
                            ELSE token_balance
        /\ history' = IF result = "Ok"
                      THEN Log(history, [op |-> "claim", who |-> claimant,
                                         token |-> get(storage, "Balance").token,
                                         amount |-> get(storage, "Balance").amount])
                      ELSE history
        /\ UNCHANGED ledger_timestamp

claim(claimant, authorized, accept) ==
    LET result == claim_result(storage, token_balance, ledger_timestamp,
                               claimant, authorized, accept)
    IN  IF result = "Ok"
        THEN /\ token_balance' =
                    claim_transfer(token_balance, get(storage, "Balance"), claimant)
             /\ storage' = claim_storage(storage)
             /\ last' = [op |-> "claim", result |-> result,
                         committed |-> <<[claimant |-> claimant,
                                          claimable_balance |-> get(storage, "Balance"),
                                          authorized |-> authorized,
                                          at |-> ledger_timestamp]>>]
             /\ history' = Log(history, [op |-> "claim", who |-> claimant,
                                         token |-> get(storage, "Balance").token,
                                         amount |-> get(storage, "Balance").amount])
             /\ UNCHANGED ledger_timestamp
        ELSE /\ last' = [op |-> "claim", result |-> result, committed |-> <<>>]
             /\ UNCHANGED <<token_balance, storage, history, ledger_timestamp>>

----------------------------------------------------------------------------
(* Specification *)

Init ==
    /\ storage = [key \in DataKey |-> <<>>]
    /\ token_balance = [t \in Tokens |->
                          [h \in Holders |-> IF h = Contract THEN 0 ELSE MaxAmount]]
    /\ ledger_timestamp = 0
    /\ last = [op |-> "none", result |-> "Ok", committed |-> <<>>]
    /\ history = <<>>

Deposit ==
    \E from \in Addresses, token \in Tokens, amount \in Amounts,
       claimants \in ClaimantLists, time_bound \in TimeBound,
       authorized \in BOOLEAN, accept \in BOOLEAN :
        deposit(from, token, amount, claimants, time_bound, authorized, accept)

Claim ==
    \E claimant \in Addresses, authorized \in BOOLEAN, accept \in BOOLEAN :
        claim(claimant, authorized, accept)

\* the ledger closes and its timestamp advances
Tick ==
    /\ ledger_timestamp < MaxTime
    /\ ledger_timestamp' = ledger_timestamp + 1
    /\ UNCHANGED <<storage, token_balance, last, history>>

Next == Deposit \/ Claim \/ Tick

Spec == Init /\ [][Next]_vars

\* a claim by a listed claimant who authorized the call and whose token
\* transfer is accepted
ValidClaim ==
    \E claimant \in Addresses :
        /\ has(storage, "Balance")
        /\ contains(get(storage, "Balance").claimants, claimant)
        /\ claim(claimant, TRUE, TRUE)

\* a listed claimant who is able to claim does not wait forever
LiveSpec == Spec /\ WF_vars(ValidClaim)

----------------------------------------------------------------------------
(* Vocabulary of the properties *)

Succeeded(op) == Cardinality({i \in 1..Len(history) : history[i].op = op})

RECURSIVE MovedOf(_, _, _)
\* the total amount of `token` the committed invocations `op` moved
MovedOf(h, op, token) ==
    IF h = <<>> THEN 0
    ELSE (IF Head(h).op = op /\ Head(h).token = token THEN Head(h).amount ELSE 0)
         + MovedOf(Tail(h), op, token)

RECURSIVE Moved(_, _)
\* the total amount the committed invocations `op` moved, over all tokens
Moved(h, op) ==
    IF h = <<>> THEN 0
    ELSE (IF Head(h).op = op THEN Head(h).amount ELSE 0) + Moved(Tail(h), op)

RECURSIVE SumOver(_, _)
\* the sum of the balances of the holders in `hs`
SumOver(f, hs) ==
    IF hs = {} THEN 0
    ELSE LET h == CHOOSE x \in hs : TRUE IN f[h] + SumOver(f, hs \ {h})

\* the invocation whose outcome is in last' ran in this step
Invoked == ledger_timestamp' = ledger_timestamp

Custody(token) == token_balance[token][Contract]

Uninitialized == ~has(storage, "Init") /\ ~has(storage, "Balance")
Escrowed == has(storage, "Init") /\ has(storage, "Balance")
Consumed == has(storage, "Init") /\ ~has(storage, "Balance")

\* the time predicate of the stored escrow, written out
TimeConditionHolds ==
    LET tb == get(storage, "Balance").time_bound
    IN  \/ tb.kind = "Before" /\ ledger_timestamp <= tb.timestamp
        \/ tb.kind = "After" /\ ledger_timestamp >= tb.timestamp

Listed(a) == \E i \in DOMAIN get(storage, "Balance").claimants :
                 get(storage, "Balance").claimants[i] = a

\* what a deposit call with these arguments would report in the current state
DepositNow(from, token, amount, claimants, authorized, accept) ==
    deposit_result(storage, token_balance, from, token, amount, claimants,
                   authorized, accept)

\* what a claim call with these arguments would report in the current state
ClaimNow(claimant, authorized, accept) ==
    claim_result(storage, token_balance, ledger_timestamp, claimant,
                 authorized, accept)

----------------------------------------------------------------------------
(* C1: single-shot deposit *)

\* C1 as stated: once a deposit has succeeded, every later deposit call,
\* whatever its arguments, fails with AlreadyInitialized.
C1_AnyLaterDepositAlreadyInitialized ==
    Succeeded("deposit") >= 1 =>
        \A from \in Addresses, token \in Tokens, amount \in Amounts,
           claimants \in ClaimantLists, authorized \in BOOLEAN, accept \in BOOLEAN :
            DepositNow(from, token, amount, claimants, authorized, accept)
                = "AlreadyInitialized"

\* C1 (amended): once a deposit has succeeded, also after the escrow was
\* claimed, every later deposit call fails: with AlreadyInitialized when its
\* claimant list has at most 10 entries, with TooManyClaimants otherwise; so
\* at most one deposit ever succeeds.
C1_LaterDepositFails ==
    /\ Succeeded("deposit") <= 1
    /\ Succeeded("deposit") >= 1 =>
        \A from \in Addresses, token \in Tokens, amount \in Amounts,
           claimants \in ClaimantLists, authorized \in BOOLEAN, accept \in BOOLEAN :
            DepositNow(from, token, amount, claimants, authorized, accept)
                = IF Len(claimants) <= 10 THEN "AlreadyInitialized"
                  ELSE "TooManyClaimants"

\* a deposit was refused as already initialized after the escrow was claimed
C1_Witness ==
    /\ Succeeded("deposit") = 1 /\ Succeeded("claim") = 1
    /\ last.op = "deposit" /\ last.result = "AlreadyInitialized"

----------------------------------------------------------------------------
(* C2: exactly-once claim *)

\* C2 as stated: after a successful claim, every later claim call by any
\* identity fails with NoActiveEscrow.
C2_AnyLaterClaimNoActiveEscrow ==
    Succeeded("claim") >= 1 =>
        \A claimant \in Addresses, authorized \in BOOLEAN, accept \in BOOLEAN :
            ClaimNow(claimant, authorized, accept) = "NoActiveEscrow"

\* C2 (amended): after a successful claim, every later claim call by any
\* identity fails: with NoActiveEscrow when the caller authorized the call,
\* with AuthorizationFailure otherwise.
C2_LaterClaimFails ==
    Succeeded("claim") >= 1 =>
        \A claimant \in Addresses, authorized \in BOOLEAN, accept \in BOOLEAN :
            ClaimNow(claimant, authorized, accept)
                = IF authorized THEN "NoActiveEscrow" ELSE "AuthorizationFailure"

\* a claim was refused for want of an escrow after one had succeeded
C2_Witness ==
    /\ Succeeded("claim") = 1
    /\ last.op = "claim" /\ last.result = "NoActiveEscrow"

----------------------------------------------------------------------------
(* C3: no double spend *)

\* C3: whatever the order of the claim calls, at most one claim ever
\* succeeds, it pays out the full amount the deposit moved in, and the total
\* moved out of custody never exceeds the total moved in.
C3_NoDoubleSpend ==
    /\ Succeeded("claim") <= 1
    /\ \A i \in 1..Len(history) :
          history[i].op = "claim" =>
              \E j \in 1..(i - 1) :
                  /\ history[j].op = "deposit"
                  /\ history[j].token = history[i].token
                  /\ history[j].amount = history[i].amount
    /\ \A token \in Tokens :
          /\ MovedOf(history, "claim", token) <= MovedOf(history, "deposit", token)
          /\ Custody(token) = MovedOf(history, "deposit", token)
                                 - MovedOf(history, "claim", token)
    /\ (last.op = "claim" /\ last.result = "Ok") =>
          /\ Custody(last.committed[1].claimable_balance.token) = 0
          /\ Moved(history, "claim") = last.committed[1].claimable_balance.amount

\* one listed claimant was paid a positive amount and the next claim found
\* nothing left
C3_Witness ==
    /\ Succeeded("claim") = 1 /\ Moved(history, "claim") > 0
    /\ last.op = "claim" /\ last.result = "NoActiveEscrow"

----------------------------------------------------------------------------
(* C4: time-bound correctness *)

\* C4: while an escrow is stored, an authorized claim by a listed claimant
\* whose transfer the token accepts succeeds iff the ledger timestamp is <= T
\* (Before) or >= T (After), so it succeeds at timestamp = T for both kinds,
\* and otherwise fails with TimeConditionUnmet.
C4_TimeBoundCorrect ==
    has(storage, "Balance") =>
        \A claimant \in Addresses :
            Listed(claimant) =>
                /\ ClaimNow(claimant, TRUE, TRUE) = "Ok" <=> TimeConditionHolds
                /\ ~TimeConditionHolds =>
                      ClaimNow(claimant, TRUE, TRUE) = "TimeConditionUnmet"
                /\ ledger_timestamp = get(storage, "Balance").time_bound.timestamp
                      => ClaimNow(claimant, TRUE, TRUE) = "Ok"

\* a claim succeeded exactly at the boundary timestamp
C4_Witness ==
    /\ last.op = "claim" /\ last.result = "Ok"
    /\ last.committed[1].at = last.committed[1].claimable_balance.time_bound.timestamp
    /\ last.committed[1].at > 0

----------------------------------------------------------------------------
(* C5: claimant restriction *)

\* C5 as stated: while an escrow is stored, a claim by an identity that is
\* not in the stored claimants always fails with ClaimantNotAllowed.
C5_UnlistedAlwaysClaimantNotAllowed ==
    has(storage, "Balance") =>
        \A claimant \in Addresses, authorized \in BOOLEAN, accept \in BOOLEAN :
            ~Listed(claimant) =>
                ClaimNow(claimant, authorized, accept) = "ClaimantNotAllowed"

\* C5 (amended): while an escrow is stored, a claim by an identity that is
\* not in the stored claimants always fails; it fails with ClaimantNotAllowed
\* when the caller authorized the call and the time predicate holds, with
\* AuthorizationFailure when the call is not authorized, and with
\* TimeConditionUnmet when it is authorized outside the time window.
C5_UnlistedNeverClaims ==
    has(storage, "Balance") =>
        \A claimant \in Addresses, authorized \in BOOLEAN, accept \in BOOLEAN :
            ~Listed(claimant) =>
                ClaimNow(claimant, authorized, accept)
                    = IF ~authorized THEN "AuthorizationFailure"
                      ELSE IF ~TimeConditionHolds THEN "TimeConditionUnmet"
                      ELSE "ClaimantNotAllowed"

\* an unlisted caller was refused while the time window was open and a
\* claimant was listed
C5_Witness ==
    /\ has(storage, "Balance") /\ TimeConditionHolds
    /\ get(storage, "Balance").claimants # <<>>
    /\ last.op = "claim" /\ last.result = "ClaimantNotAllowed"

----------------------------------------------------------------------------
(* C6: authorization gating *)

C6_UnauthorizedCallFails ==
    /\ \A from \in Addresses, token \in Tokens, amount \in Amounts,
          claimants \in ClaimantLists, accept \in BOOLEAN :
           DepositNow(from, token, amount, claimants, FALSE, accept) # "Ok"
    /\ \A claimant \in Addresses, accept \in BOOLEAN :
           ClaimNow(claimant, FALSE, accept) # "Ok"

C6_MutationIsAuthorized ==
    (storage' # storage \/ token_balance' # token_balance) =>
        /\ Invoked
        /\ last'.result = "Ok"
        /\ last'.committed[1].authorized

\* C6: a deposit or claim issued without a valid authorization of the
\* depositor or claimant never commits, and every step that changes the
\* storage or a balance is a committed call that was authorized.
C6_AuthorizationGating ==
    []C6_UnauthorizedCallFails /\ [][C6_MutationIsAuthorized]_vars

\* an unauthorized claim was refused although the escrow was claimable
C6_Witness ==
    /\ Escrowed /\ TimeConditionHolds
    /\ get(storage, "Balance").claimants # <<>>
    /\ get(storage, "Balance").amount > 0
    /\ last.op = "claim" /\ last.result = "AuthorizationFailure"

----------------------------------------------------------------------------
(* C7: fund conservation *)

\* the balances after moving `amount` of `token` from `from` to `to`
MovedBalances(token, from, to, amount) ==
    [t \in Tokens |-> [h \in Holders |->
        token_balance[t][h]
            + (IF t = token /\ h = to THEN amount ELSE 0)
            - (IF t = token /\ h = from THEN amount ELSE 0)]]

C7_Conserved ==
    (Invoked /\ last'.result = "Ok") =>
        /\ last'.op = "deposit" =>
              token_balance' = MovedBalances(last'.committed[1].token,
                                             last'.committed[1].from, Contract,
                                             last'.committed[1].amount)
        /\ last'.op = "claim" =>
              /\ has(storage, "Balance")
              /\ token_balance' = MovedBalances(get(storage, "Balance").token,
                                                Contract, last'.committed[1].claimant,
                                                get(storage, "Balance").amount)
        /\ \A t \in Tokens :
              SumOver(token_balance'[t], Holders) = SumOver(token_balance[t], Holders)

\* C7: a successful deposit moves exactly amount from the depositor to the
\* contract, a successful claim moves exactly the stored amount from the
\* contract to the claiming identity, no other balance changes and the sum of
\* all balances is unchanged.
C7_FundConservation == [][C7_Conserved]_vars

\* a claimant other than the depositor was paid a positive amount
C7_Witness ==
    /\ last.op = "claim" /\ last.result = "Ok"
    /\ Len(history) = 2
    /\ history[2].amount > 0
    /\ history[1].who # history[2].who
    /\ token_balance[history[2].token][history[2].who] = MaxAmount + history[2].amount

----------------------------------------------------------------------------
(* C8: custody invariant *)

\* C8: while the escrow record exists the contract holds exactly its amount
\* of its token (and nothing of any other token), and while no record exists
\* the contract holds nothing.
C8_CustodyMatchesRecord ==
    \A t \in Tokens :
        Custody(t) = IF has(storage, "Balance") /\ get(storage, "Balance").token = t
                     THEN get(storage, "Balance").amount
                     ELSE 0

\* a positive amount was held for a stored record
C8_Witness ==
    /\ Escrowed
    /\ get(storage, "Balance").amount > 0
    /\ Custody(get(storage, "Balance").token) = get(storage, "Balance").amount
    /\ last.op = "deposit" /\ last.result = "Ok"

----------------------------------------------------------------------------
(* C9: lifecycle *)

C9_States == Uninitialized \/ Escrowed \/ Consumed

C9_Step ==
    /\ Uninitialized =>
          \/ Uninitialized'
          \/ Escrowed' /\ Invoked /\ last'.op = "deposit" /\ last'.result = "Ok"
    /\ Escrowed =>
          \/ Escrowed'
          \/ Consumed' /\ Invoked /\ last'.op = "claim" /\ last'.result = "Ok"
    /\ Consumed => Consumed'
    /\ has(storage, "Init") => has(storage', "Init")

\* C9: the instance is always Uninitialized (no flag, no record), Escrowed
\* (flag, record) or Consumed (flag, no record); it leaves Uninitialized only
\* to Escrowed by a successful deposit, leaves Escrowed only to Consumed by a
\* successful claim, never leaves Consumed, and the flag is never cleared.
C9_Lifecycle == []C9_States /\ [][C9_Step]_vars

\* the instance went through deposit and claim and was then called again
C9_Witness ==
    /\ Consumed
    /\ Succeeded("deposit") = 1 /\ Succeeded("claim") = 1
    /\ last.result # "Ok"

----------------------------------------------------------------------------
(* C10: claimant bound *)

\* C10: deposit reports TooManyClaimants exactly for lists of more than 10
\* claimants, a deposit with exactly 10 claimants that passes the other
\* checks is accepted, and a stored record never has more than 10 claimants.
C10_ClaimantBound ==
    /\ \A from \in Addresses, token \in Tokens, amount \in Amounts,
          claimants \in ClaimantLists, authorized \in BOOLEAN, accept \in BOOLEAN :
           (DepositNow(from, token, amount, claimants, authorized, accept)
                = "TooManyClaimants") <=> Len(claimants) > 10
    /\ Uninitialized =>
          \A from \in Addresses, token \in Tokens, claimants \in ClaimantLists :
              Len(claimants) = 10 =>
                  DepositNow(from, token, 0, claimants, TRUE, TRUE) = "Ok"
    /\ has(storage, "Balance") => Len(get(storage, "Balance").claimants) <= 10

\* a record with exactly 10 claimants is stored and a deposit with more was
\* refused for its claimant count
C10_Witness ==
    /\ has(storage, "Balance")
    /\ Len(get(storage, "Balance").claimants) = 10
    /\ last.op = "deposit" /\ last.result = "TooManyClaimants"

----------------------------------------------------------------------------
(* C11: record immutability *)

C11_Step ==
    /\ (Invoked /\ last'.op = "deposit" /\ last'.result = "Ok") =>
          storage'["Balance"] =
              <<[token |-> last'.committed[1].token,
                 amount |-> last'.committed[1].amount,
                 claimants |-> last'.committed[1].claimants,
                 time_bound |-> last'.committed[1].time_bound]>>
    /\ has(storage, "Balance") =>
          \/ storage'["Balance"] = storage["Balance"]
          \/ /\ storage'["Balance"] = <<>>
             /\ Invoked /\ last'.op = "claim" /\ last'.result = "Ok"

\* C11: a successful deposit stores asset, amount, claimants and time bound
\* exactly as given, and from then on no call changes the stored record: the
\* only change ever made to it is its removal as a whole by a successful
\* claim.
C11_RecordImmutable == [][C11_Step]_vars

\* the record outlived a failed claim and a clock tick unchanged
C11_Witness ==
    /\ Escrowed
    /\ get(storage, "Balance").amount > 0
    /\ Len(get(storage, "Balance").claimants) = 2
    /\ ledger_timestamp > 0
    /\ last.op = "claim" /\ last.result # "Ok"

----------------------------------------------------------------------------
(* C12: deposit check order *)

\* the token refuses the transfer of `amount` from `from`
TransferRefused(token, from, amount, accept) ==
    ~accept \/ amount < 0 \/ token_balance[token][from] < amount

\* C12: in every reachable state a deposit call reports its first failing
\* check in the order claimant count, initialization flag, depositor
\* authorization, transfer; so on an initialized instance a deposit with
\* more than 10 claimants reports TooManyClaimants and an unauthorized
\* deposit with at most 10 claimants reports AlreadyInitialized.
C12_DepositCheckOrder ==
    \A from \in Addresses, token \in Tokens, amount \in Amounts,
       claimants \in ClaimantLists, authorized \in BOOLEAN, accept \in BOOLEAN :
        LET r == DepositNow(from, token, amount, claimants, authorized, accept)
        IN  /\ Len(claimants) > 10 => r = "TooManyClaimants"
            /\ (Len(claimants) <= 10 /\ has(storage, "Init"))
                  => r = "AlreadyInitialized"
            /\ (Len(claimants) <= 10 /\ ~has(storage, "Init") /\ ~authorized)
                  => r = "AuthorizationFailure"
            /\ (Len(claimants) <= 10 /\ ~has(storage, "Init") /\ authorized
                  /\ TransferRefused(token, from, amount, accept))
                  => r = "TransferFailure"
            /\ (Len(claimants) <= 10 /\ ~has(storage, "Init") /\ authorized
                  /\ ~TransferRefused(token, from, amount, accept))
                  => r = "Ok"

\* a deposit with too many claimants was refused for its claimant count on
\* an instance that was already consumed
C12_Witness ==
    /\ Consumed
    /\ last.op = "deposit" /\ last.result = "TooManyClaimants"

----------------------------------------------------------------------------
(* C13: claim check order *)

\* C13: in every reachable state a claim call reports its first failing
\* check in the order claimant authorization, record existence, time
\* predicate, claimant membership, transfer; so an unauthorized claim with no
\* record reports AuthorizationFailure and an authorized claim by an unlisted
\* identity outside the time window reports TimeConditionUnmet.
C13_ClaimCheckOrder ==
    \A claimant \in Addresses, authorized \in BOOLEAN, accept \in BOOLEAN :
        LET r == ClaimNow(claimant, authorized, accept)
        IN  /\ ~authorized => r = "AuthorizationFailure"
            /\ (authorized /\ ~has(storage, "Balance")) => r = "NoActiveEscrow"
            /\ (authorized /\ has(storage, "Balance")) =>
                  /\ ~TimeConditionHolds => r = "TimeConditionUnmet"
                  /\ (TimeConditionHolds /\ ~Listed(claimant))
                        => r = "ClaimantNotAllowed"
                  /\ (TimeConditionHolds /\ Listed(claimant)
                        /\ TransferRefused(get(storage, "Balance").token, Contract,
                                           get(storage, "Balance").amount, accept))
                        => r = "TransferFailure"
                  /\ (TimeConditionHolds /\ Listed(claimant)
                        /\ ~TransferRefused(get(storage, "Balance").token, Contract,
                                            get(storage, "Balance").amount, accept))
                        => r = "Ok"

\* a claim on an escrow nobody is listed for was refused for the time
\* predicate, not for membership
C13_Witness ==
    /\ Escrowed /\ ~TimeConditionHolds
    /\ get(storage, "Balance").claimants = <<>>
    /\ last.op = "claim" /\ last.result = "TimeConditionUnmet"

----------------------------------------------------------------------------
(* C14: a failed claim does not consume the escrow *)

C14_Step ==
    /\ (Invoked /\ last'.op = "claim" /\ last'.result # "Ok") =>
          /\ storage' = storage
          /\ token_balance' = token_balance
    /\ (has(storage, "Balance") /\ ~has(storage', "Balance")) =>
          /\ Invoked /\ last'.op = "claim" /\ last'.result = "Ok"
          /\ token_balance' = MovedBalances(get(storage, "Balance").token, Contract,
                                            last'.committed[1].claimant,
                                            get(storage, "Balance").amount)

C14_StillClaimable ==
    (Escrowed /\ last.op = "claim" /\ last.result # "Ok" /\ TimeConditionHolds) =>
        \A claimant \in Addresses :
            Listed(claimant) => ClaimNow(claimant, TRUE, TRUE) = "Ok"

\* C14: a claim that fails, for whatever reason, leaves the record, the flag
\* and all balances unchanged; the record is removed only by a step that
\* also pays its amount to the claimant; and after a failed claim a valid
\* claim still succeeds.
C14_FailedClaimKeepsEscrow == []C14_StillClaimable /\ [][C14_Step]_vars

\* the token refused the payout and the funded record is still there
C14_Witness ==
    /\ Escrowed
    /\ get(storage, "Balance").amount > 0
    /\ Custody(get(storage, "Balance").token) = get(storage, "Balance").amount
    /\ last.op = "claim" /\ last.result = "TransferFailure"

----------------------------------------------------------------------------
(* C15: a failed deposit leaves no partial state *)

InitialBalances ==
    [t \in Tokens |-> [h \in Holders |-> IF h = Contract THEN 0 ELSE MaxAmount]]

C15_Step ==
    (Invoked /\ last'.op = "deposit" /\ last'.result # "Ok") =>
        /\ storage' = storage
        /\ token_balance' = token_balance

C15_NoPartialState ==
    /\ Uninitialized =>
          /\ token_balance = InitialBalances
          /\ \A from \in Addresses, token \in Tokens, amount \in 0..MaxAmount,
                claimants \in ClaimantLists :
                 Len(claimants) <= 10 =>
                     DepositNow(from, token, amount, claimants, TRUE, TRUE) = "Ok"
    /\ \A t \in Tokens : Custody(t) > 0 => Escrowed
    /\ token_balance # InitialBalances => has(storage, "Init")

\* C15: a deposit that fails, for whatever reason, leaves the flag, the
\* record and all balances unchanged; an Uninitialized instance still has
\* its initial balances and accepts a valid deposit; and funds are in
\* custody only while both the record and the flag are stored.
C15_FailedDepositLeavesNothing == []C15_NoPartialState /\ [][C15_Step]_vars

\* the token refused the transfer and the instance is still Uninitialized
C15_Witness ==
    /\ Uninitialized
    /\ last.op = "deposit" /\ last.result = "TransferFailure"

----------------------------------------------------------------------------
(* C16: claim before any deposit *)

\* C16: on an instance on which no deposit ever succeeded an authorized
\* claim reports NoActiveEscrow, as it does on a Consumed instance; such a
\* claim moves no funds and leaves the instance Uninitialized, so that a
\* valid deposit still succeeds.
C16_ClaimBeforeDeposit ==
    /\ ~has(storage, "Balance") =>
          \A claimant \in Addresses, accept \in BOOLEAN :
              ClaimNow(claimant, TRUE, accept) = "NoActiveEscrow"
    /\ (last.op = "claim" /\ last.result = "NoActiveEscrow") =>
          ~has(storage, "Balance")
    /\ Succeeded("deposit") = 0 =>
          /\ Uninitialized
          /\ token_balance = InitialBalances
          /\ \A from \in Addresses, token \in Tokens, amount \in 0..MaxAmount,
                claimants \in ClaimantLists :
                 Len(claimants) <= 10 =>
                     DepositNow(from, token, amount, claimants, TRUE, TRUE) = "Ok"

\* a claim found no escrow on an instance that was never deposited to
C16_Witness ==
    /\ Uninitialized /\ history = <<>>
    /\ last.op = "claim" /\ last.result = "NoActiveEscrow"

----------------------------------------------------------------------------
(* C17: an expired Before escrow is locked *)

Expired ==
    /\ Escrowed
    /\ get(storage, "Balance").time_bound.kind = "Before"
    /\ ledger_timestamp > get(storage, "Balance").time_bound.timestamp

C17_NothingSucceeds ==
    Expired =>
        /\ \A claimant \in Addresses, authorized \in BOOLEAN, accept \in BOOLEAN :
               ClaimNow(claimant, authorized, accept)
                   = IF authorized THEN "TimeConditionUnmet"
                     ELSE "AuthorizationFailure"
        /\ \A from \in Addresses, token \in Tokens, amount \in Amounts,
              claimants \in ClaimantLists, authorized \in BOOLEAN,
              accept \in BOOLEAN :
               DepositNow(from, token, amount, claimants, authorized, accept) # "Ok"

C17_Step ==
    /\ ledger_timestamp' >= ledger_timestamp
    /\ Expired =>
          /\ Expired'
          /\ storage' = storage
          /\ token_balance' = token_balance

\* C17: the ledger timestamp never decreases, and once a Before escrow is
\* stored and the timestamp has passed T, every claim fails with
\* TimeConditionUnmet (AuthorizationFailure when unauthorized), every deposit
\* fails, and no step changes the record or a balance: the instance stays
\* Escrowed and never becomes Consumed.
C17_ExpiredBeforeIsLocked == []C17_NothingSucceeds /\ [][C17_Step]_vars

\* a listed claimant was refused on an expired escrow that holds funds
C17_Witness ==
    /\ Expired
    /\ get(storage, "Balance").amount > 0
    /\ get(storage, "Balance").claimants # <<>>
    /\ last.op = "claim" /\ last.result = "TimeConditionUnmet"

----------------------------------------------------------------------------
(* C18: an After escrow stays claimable and is eventually claimed *)

Claimable ==
    /\ Escrowed
    /\ get(storage, "Balance").time_bound.kind = "After"
    /\ get(storage, "Balance").claimants # <<>>
    /\ ledger_timestamp >= get(storage, "Balance").time_bound.timestamp

C18_ClaimSucceeds ==
    Claimable =>
        /\ TimeConditionHolds
        /\ \A claimant \in Addresses :
               Listed(claimant) => ClaimNow(claimant, TRUE, TRUE) = "Ok"

C18_Step ==
    Claimable =>
        \/ Claimable' /\ storage' = storage
        \/ /\ Consumed'
           /\ last'.op = "claim" /\ last'.result = "Ok"

\* C18: once the timestamp of an After escrow with a non-empty claimant list
\* is reached, the time predicate holds and an authorized, accepted claim by
\* a listed claimant succeeds in every later state until a claim succeeds;
\* and when such a claim is not postponed forever, the instance becomes
\* Consumed.
C18_AfterStableAndLive ==
    /\ []C18_ClaimSucceeds
    /\ [][C18_Step]_vars
    /\ (Claimable ~> Consumed)

\* an After escrow was claimed strictly later than its timestamp
C18_Witness ==
    /\ Consumed
    /\ last.op = "claim" /\ last.result = "Ok"
    /\ last.committed[1].claimable_balance.time_bound.kind = "After"
    /\ last.committed[1].at > last.committed[1].claimable_balance.time_bound.timestamp
    /\ last.committed[1].claimable_balance.amount > 0

----------------------------------------------------------------------------
(* C19: an escrow without claimants *)

EmptyEscrow == Escrowed /\ get(storage, "Balance").claimants = <<>>

C19_EmptyListAccepted ==
    Uninitialized =>
        \A from \in Addresses, token \in Tokens, amount \in Amounts :
            DepositNow(from, token, amount, <<>>, TRUE, TRUE)
                = IF TransferRefused(token, from, amount, TRUE)
                  THEN "TransferFailure" ELSE "Ok"

C19_NothingSucceeds ==
    EmptyEscrow =>
        /\ \A claimant \in Addresses, authorized \in BOOLEAN, accept \in BOOLEAN :
               ClaimNow(claimant, authorized, accept) # "Ok"
        /\ \A from \in Addresses, token \in Tokens, amount \in Amounts,
              claimants \in ClaimantLists, authorized \in BOOLEAN,
              accept \in BOOLEAN :
               DepositNow(from, token, amount, claimants, authorized, accept) # "Ok"
        /\ Custody(get(storage, "Balance").token) = get(storage, "Balance").amount

C19_Step ==
    /\ (last'.op = "deposit" /\ last'.result = "Ok" /\ last' # last) => Escrowed'
    /\ EmptyEscrow =>
          /\ EmptyEscrow'
          /\ storage' = storage
          /\ token_balance' = token_balance

\* C19: a deposit with an empty claimant list is accepted like any other
\* (it succeeds when authorized and the transfer goes through) and leaves the
\* instance Escrowed; from then on no claim and no deposit succeeds at any
\* timestamp, no step changes the record or a balance, and the contract
\* keeps holding the deposited amount.
C19_EmptyListLocksFunds ==
    /\ [](C19_EmptyListAccepted /\ C19_NothingSucceeds)
    /\ [][C19_Step]_vars

\* funds were deposited for nobody, and a claim made while the time
\* condition held was refused
C19_Witness ==
    /\ EmptyEscrow
    /\ get(storage, "Balance").amount > 0
    /\ TimeConditionHolds
    /\ Succeeded("deposit") = 1
    /\ last.op = "claim" /\ last.result = "ClaimantNotAllowed"

====
